---- MODULE Spec2Model ----
(***************************************************************************)
(* Legal Act Change Tracker: the hash-chained amendment ledger of          *)
(* src/hash_chain.py (LLMSummaryGenerator, Amendment, ChainNode,           *)
(* HashChain) with its callers (src/api.py) and the direct writes that the *)
(* repository's own test code performs on a ledger (src/security_tests.py, *)
(* hash_chain.py __main__ Test 5, ReleaseValidator._run_security_tests).   *)
(*                                                                         *)
(* Conventions.  A Python str is a sequence of one-character strings.      *)
(* Python None is the one-element tuple None below (no str and no digest   *)
(* equals it).  An Amendment object lives in `heap` and is referred to by  *)
(* its index there, so that two references to one object alias.  A SHA-256 *)
(* digest is the term <<"sha256", data>> over the canonical encoding: the  *)
(* digest is taken to be collision free.                                   *)
(***************************************************************************)
EXTENDS Integers, Sequences, FiniteSets, TLC

\* ------------------------------------------------------------------ bounds
\* Longest ledger the model builds.
MaxLen == 4
\* Amendment objects constructed in one run.
MaxObjs == 2
\* Direct writes to a ledger's storage in one run (test-harness tampering).
MaxTampers == 2
\* Stands for Config.MAX_CHAIN_SIZE (10000 at src/hash_chain.py:22), scaled
\* down so that ledgers at and over the limit are explored.
MAX_CHAIN_SIZE == 3
\* HashChain instances (each with its AuditLog) created in one process.
MaxInstances == 3
\* Threads calling add_amendment concurrently (FastAPI runs the synchronous
\* endpoints of src/api.py in a thread pool).
NumThreads == 2

\* ------------------------------------------------------- program constants
\* _fallback_simplify truncates summaries longer than this.
SUMMARY_LIMIT == 200

VARIABLES
    Config,     \* the class the module global `Config` is bound to
    heap,       \* the Amendment objects constructed so far
    chain,      \* HashChain.chain: the list of ChainNode
    result,     \* outcome of the latest call (return value, exception, audit events)
    appended,   \* history: each entry as add_amendment stored it
    tamperLog,  \* history: the direct writes made to the ledger's storage
    pc,         \* per thread: position inside add_amendment
    local,      \* per thread: the locals of add_amendment
    reader,     \* a get_history or verify_integrity call in progress
    limiter,    \* RateLimiter.requests: client id -> instants of granted calls
    clock,      \* what time.time() returns
    calls,      \* history: the is_allowed calls made, with their answers
    handlers,   \* number of handlers attached to the logger named "audit"
    current_chain \* src/app.py: the module global current_chain

rateVars == <<limiter, clock, calls>>

appVars == <<handlers, current_chain>>

vars ==
    <<Config, heap, chain, result, appended, tamperLog, pc, local, reader, rateVars,
      appVars>>

\* ----------------------------------------------------------- Python values
None == <<"None">>

\* The characters str.strip() removes, as far as the model's inputs use them.
Whitespace == {" ", "\t", "\n"}

RECURSIVE LStrip(_)
LStrip(s) == IF s # <<>> /\ s[1] \in Whitespace THEN LStrip(Tail(s)) ELSE s

RECURSIVE RStrip(_)
RStrip(s) ==
    IF s # <<>> /\ s[Len(s)] \in Whitespace THEN RStrip(SubSeq(s, 1, Len(s) - 1)) ELSE s

Strip(s) == RStrip(LStrip(s))

\* `not isinstance(x, str) or not x.strip()`; a non-str argument is None here.
NotText(x) == x = None \/ Strip(x) = <<>>

\* old occurs in s at position i.
OccursAt(s, old, i) == \A j \in 1..Len(old) : s[i + j - 1] = old[j]

\* str.replace(old, new): leftmost non-overlapping occurrences, old non-empty.
RECURSIVE StrReplace(_, _, _)
StrReplace(s, old, new) ==
    LET found == {i \in 1..(Len(s) - Len(old) + 1) :
                      s[i] = old[1] /\ OccursAt(s, old, i)}
    IN  IF found = {} THEN s
        ELSE LET first == CHOOSE i \in found : \A j \in found : i <= j
             IN  SubSeq(s, 1, first - 1) \o new
                   \o StrReplace(SubSeq(s, first + Len(old), Len(s)), old, new)

LowerLetters ==
    <<"a","b","c","d","e","f","g","h","i","j","k","l","m",
      "n","o","p","q","r","s","t","u","v","w","x","y","z",
      "U+00E3","U+00E4","U+00E5">>
UpperLetters ==
    <<"A","B","C","D","E","F","G","H","I","J","K","L","M",
      "N","O","P","Q","R","S","T","U","V","W","X","Y","Z",
      "U+00C3","U+00C4","U+00C5">>

IsLower(c) == \E i \in 1..Len(LowerLetters) : LowerLetters[i] = c
ToUpper(c) ==
    IF IsLower(c)
    THEN UpperLetters[CHOOSE i \in 1..Len(LowerLetters) : LowerLetters[i] = c]
    ELSE c
ToLower(c) ==
    IF \E i \in 1..Len(UpperLetters) : UpperLetters[i] = c
    THEN LowerLetters[CHOOSE i \in 1..Len(UpperLetters) : UpperLetters[i] = c]
    ELSE c

\* str.capitalize(): first character upper-cased, the rest lower-cased.
Capitalize(s) ==
    IF s = <<>> THEN s
    ELSE <<ToUpper(s[1])>> \o [i \in 1..(Len(s) - 1) |-> ToLower(s[i + 1])]

\* s.rsplit(' ', 1)[0]: the text before the last space, or all of s.
RSplitHead(s) ==
    LET spaces == {i \in 1..Len(s) : s[i] = " "}
    IN  IF spaces = {} THEN s
        ELSE SubSeq(s, 1, (CHOOSE i \in spaces : \A j \in spaces : j <= i) - 1)

\* ---------------------------------------------------- LLMSummaryGenerator
\* REPLACEMENTS in dict (insertion) order, the strings as the source file
\* holds them; a character outside printable ASCII is written U+XXXX (one
\* element of the sequence, as it is one character of the str).
REPLACEMENTS ==
    <<
       <<<<"n", "i", "n", "i", "e", "j", "s", "z", "y", "m", " ", "u", "s",
           "t", "a", "w", "U+00C4", "U+2026">>,
         <<"t", "U+00C4", "U+2026", " ", "u", "s", "t", "a", "w", "U+00C4",
           "U+2026">>>>,
       <<<<"n", "i", "e", "z", "a", "l", "e", "U+00C5", "U+00BC", "n", "i",
           "e", " ", "o", "d">>,
         <<"m", "i", "m", "o", " ", "U+00C5", "U+00BC", "e">>>>,
       <<<<"z", "g", "o", "d", "n", "i", "e", " ", "z">>,
         <<"w", "e", "d", "U+00C5", "U+201A", "u", "g">>>>,
       <<<<"p", "o", "w", "i", "n", "i", "e", "n">>,
         <<"m", "u", "s", "i">>>>,
       <<<<"p", "o", "w", "i", "n", "n", "a">>,
         <<"m", "u", "s", "i">>>>,
       <<<<"p", "o", "w", "i", "n", "n", "o">>,
         <<"m", "u", "s", "i">>>>,
       <<<<"p", "o", "w", "i", "n", "n", "i">>,
         <<"m", "u", "s", "z", "U+00C4", "U+2026">>>>,
       <<<<"o", "b", "o", "w", "i", "U+00C4", "U+2026", "z", "a", "n", "y">>,
         <<"z", "o", "b", "o", "w", "i", "U+00C4", "U+2026", "z", "a", "n",
           "y">>>>,
       <<<<"o", "b", "o", "w", "i", "U+00C4", "U+2026", "z", "a", "n", "a">>,
         <<"z", "o", "b", "o", "w", "i", "U+00C4", "U+2026", "z", "a", "n",
           "a">>>>,
       <<<<"u", "p", "r", "a", "w", "n", "i", "o", "n", "y">>,
         <<"m", "a", " ", "p", "r", "a", "w", "o">>>>,
       <<<<"u", "p", "r", "a", "w", "n", "i", "o", "n", "a">>,
         <<"m", "a", " ", "p", "r", "a", "w", "o">>>>,
       <<<<"w", "s", "p", "o", "m", "n", "i", "a", "n", "y", " ", "w", "y",
           "U+00C5", "U+00BC", "e", "j">>,
         <<"w", "y", "m", "i", "e", "n", "i", "o", "n", "y", " ", "w", "y",
           "U+00C5", "U+00BC", "e", "j">>>>,
       <<<<"w", " ", "k", "t", "U+00C3", "U+00B3", "r", "y", "m">>,
         <<"g", "d", "z", "i", "e">>>>,
       <<<<"w", " ", "k", "t", "U+00C3", "U+00B3", "r", "e", "j">>,
         <<"g", "d", "z", "i", "e">>>>,
       <<<<"n", "a", "s", "t", "U+00C4", "U+2122", "p", "n", "i", "e">>,
         <<"p", "o", "t", "e", "m">>>>,
       <<<<"w", "U+00C3", "U+00B3", "w", "c", "z", "a", "s">>,
         <<"w", "t", "e", "d", "y">>>>,
       <<<<"u", "s", "t", "a", "w", "a">>,
         <<"p", "r", "a", "w", "o">>>>,
       <<<<"u", "s", "t", "a", "w", "y">>,
         <<"p", "r", "a", "w">>>>,
       <<<<"a", "r", "t", "y", "k", "u", "U+00C5", "U+201A">>,
         <<"A", "r", "t", ".">>>>,
       <<<<"a", "r", "t", "y", "k", "u", "U+00C5", "U+201A", "u">>,
         <<"A", "r", "t", ".">>>>,
       <<<<"p", "r", "z", "e", "p", "i", "s">>,
         <<"r", "e", "g", "u", "U+00C5", "U+201A", "a">>>>,
       <<<<"p", "r", "z", "e", "p", "i", "s", "y">>,
         <<"r", "e", "g", "u", "U+00C5", "U+201A", "y">>>>,
       <<<<"p", "r", "a", "w", "o", " ", "d", "o">>,
         <<"m", "o", "U+00C5", "U+00BC", "e">>>>,
       <<<<"o", "b", "o", "w", "i", "U+00C4", "U+2026", "z", "e", "k">>,
         <<"m", "u", "s", "i">>>>,
       <<<<"o", "d", "p", "o", "w", "i", "e", "d", "z", "i", "a", "l", "n",
           "o", "U+00C5", "U+203A", "U+00C4", "U+2021">>,
         <<"o", "d", "p", "o", "w", "i", "a", "d", "a", " ", "z", "a">>>>,
       <<<<"g", "r", "z", "y", "w", "n", "a">>,
         <<"k", "a", "r", "a", " ", "p", "i", "e", "n", "i", "U+00C4",
           "U+2122", "U+00C5", "U+00BC", "n", "a">>>>,
       <<<<"s", "a", "n", "k", "c", "j", "a">>,
         <<"k", "a", "r", "a">>>>,
       <<<<"p", "o", "d", "a", "t", "e", "k">>,
         <<"o", "p", "U+00C5", "U+201A", "a", "t", "a", " ", "r", "z",
           "U+00C4", "U+2026", "d", "o", "w", "a">>>>,
       <<<<"o", "s", "o", "b", "a", " ", "p", "r", "a", "w", "n", "a">>,
         <<"o", "r", "g", "a", "n", "i", "z", "a", "c", "j", "a">>>>,
       <<<<"o", "s", "o", "b", "a", " ", "f", "i", "z", "y", "c", "z", "n",
           "a">>,
         <<"o", "s", "o", "b", "a", " ", "p", "r", "y", "w", "a", "t", "n",
           "a">>>>,
       <<<<"p", "r", "z", "y", "s", "U+00C5", "U+201A", "u", "g", "u", "j",
           "e">>,
         <<"m", "a", " ", "p", "r", "a", "w", "o">>>>,
       <<<<"u", "p", "o", "w", "a", "U+00C5", "U+00BC", "n", "i", "a">>,
         <<"d", "a", "j", "e", " ", "p", "r", "a", "w", "o">>>>,
       <<<<"z", "a", "b", "r", "a", "n", "i", "a">>,
         <<"n", "i", "e", " ", "p", "o", "z", "w", "a", "l", "a">>>>,
       <<<<"d", "o", "p", "u", "s", "z", "c", "z", "a">>,
         <<"p", "o", "z", "w", "a", "l", "a">>>>,
       <<<<"h", "e", "r", "e", "b", "y">>,
         <<"t", "U+00C4", "U+2026", " ", "u", "s", "t", "a", "w", "U+00C4",
           "U+2026">>>>,
       <<<<"n", "o", "t", "w", "i", "t", "h", "s", "t", "a", "n", "d", "i",
           "n", "g">>,
         <<"m", "i", "m", "o", " ", "U+00C5", "U+00BC", "e">>>>,
       <<<<"s", "h", "a", "l", "l">>,
         <<"m", "u", "s", "i">>>>,
       <<<<"w", "h", "e", "r", "e", "i", "n">>,
         <<"g", "d", "z", "i", "e">>>>,
       <<<<"t", "h", "e", "r", "e", "o", "f">>,
         <<"t", "e", "g", "o">>>> >>

\* One pass of the loop body of _fallback_simplify for the entry (legal, plain).
ReplaceEntry(simple, legal, plain) ==
    LET s1 == StrReplace(simple, legal, plain)
    IN  IF IsLower(legal[1])
        THEN StrReplace(s1, <<ToUpper(legal[1])>> \o Tail(legal), Capitalize(plain))
        ELSE s1

\* The loop of _fallback_simplify from entry k of the table to its end, in
\* table order; each pass is computed before the next one starts.
RECURSIVE ApplyReplacements(_, _)
ApplyReplacements(simple, k) ==
    IF k > Len(REPLACEMENTS) THEN simple
    ELSE LET next == ReplaceEntry(simple, REPLACEMENTS[k][1], REPLACEMENTS[k][2])
         IN  IF Len(next) >= 0 THEN ApplyReplacements(next, k + 1) ELSE next

\* Lines 139-148: the replacements in table order, then the two
\* normalizations.
Substitute(text) ==
    LET s1 == ApplyReplacements(text, 1)
        s2 == StrReplace(s1, <<"A","R","T","Y","K","U","U+00C5">>,
                         <<"A","r","t","y","k","u","U+00C5","U+201A">>)
    IN  StrReplace(s2, <<"U","S","T","A","W","A">>, <<"U","s","t","a","w","a">>)

\* Lines 151-152: simple[:200].rsplit(' ', 1)[0] + '...' when len(simple) > 200.
Truncate(simple) ==
    IF Len(simple) > SUMMARY_LIMIT
    THEN RSplitHead(SubSeq(simple, 1, SUMMARY_LIMIT)) \o <<".", ".", ".">>
    ELSE simple

\* _fallback_simplify: the value of `simple` when line 151 is reached, and the
\* value returned.
FallbackSteps(text) ==
    LET simple == Substitute(text)
    IN  [simple |-> simple, ret |-> Truncate(simple)]

FallbackSimplify(text) == FallbackSteps(text).ret

NoContent == <<"N","o"," ","c","o","n","t","e","n","t">>

\* simplify: both branches (API key or not) end in _fallback_simplify. `simple`
\* is None when the call returns before _fallback_simplify.
SimplifyStepsNoSentinel(use_real_llm, text) ==
    IF text = None THEN [simple |-> None, ret |-> NoContent] ELSE FallbackSteps(text)

SimplifySteps(use_real_llm, text) ==
    IF NotText(text) THEN [simple |-> None, ret |-> NoContent]
    ELSE IF use_real_llm THEN FallbackSteps(text)
    ELSE FallbackSteps(text)

LLMSimplify(use_real_llm, text) == SimplifySteps(use_real_llm, text).ret

\* simplify of a generator constructed without an API key.
Simplify(text) == LLMSimplify(FALSE, text)

\* -------------------------------------------------------------- Amendment
VALID_TYPES == {"substantive", "editorial"}

NoSummary == <<"N","o"," ","s","u","m","m","a","r","y">>

\* Python truthiness of an Optional[str].
Truthy(x) == x # None /\ x # <<>>

\* Amendment.__init__: the exception raised ("" when none) and the object.
AmendmentInitNoAuthorCheck(content, change_type, author, summary, llm, now) ==
    IF NotText(content) \/ change_type \notin VALID_TYPES
    THEN [raised |-> "ValueError"]
    ELSE [raised |-> "",
          obj |-> [content |-> content, change_type |-> change_type,
                   author |-> author, timestamp |-> now, summary |-> NoSummary]]

AmendmentInit(content, change_type, author, summary, llm, now) ==
    IF NotText(content) \/ change_type \notin VALID_TYPES \/ NotText(author)
    THEN [raised |-> "ValueError"]
    ELSE [raised |-> "",
          obj |-> [content |-> content,
                   change_type |-> change_type,
                   author |-> author,
                   timestamp |-> now,
                   summary |-> IF Truthy(summary) THEN summary
                               ELSE IF llm THEN Simplify(content)
                               ELSE NoSummary]]

\* Amendment.to_dict
ToDict(a) ==
    [content |-> a.content, change_type |-> a.change_type, author |-> a.author,
     summary |-> a.summary, timestamp |-> a.timestamp]

\* -------------------------------------------------------------- ChainNode
\* json.dumps({'amendment': to_dict(), 'parent_hash': ...}, sort_keys=True):
\* the values in sorted key order, amendment (author, change_type, content,
\* summary, timestamp) before parent_hash.
JsonDumpsNoAuthor(d, parent_hash) ==
    <<d.change_type, d.content, d.summary, d.timestamp, parent_hash>>

JsonDumps(d, parent_hash) ==
    <<d.author, d.change_type, d.content, d.summary, d.timestamp, parent_hash>>

Sha256(data) == <<"sha256", data>>

\* A datetime object, the one value of the model that json.dumps cannot
\* encode (an Amendment's timestamp attribute can be assigned one).
DatetimeObject == "datetime.datetime"

\* json.dumps raises TypeError on a value that is not JSON serializable.
JsonSerializable(d) == d.timestamp # DatetimeObject

\* _calculate_hash, lines 217-218: any exception of the try block becomes a
\* RuntimeError.
CalculateHashRaises(amendment) == ~JsonSerializable(ToDict(amendment))

\* ChainNode._calculate_hash over the current field values of the node: the
\* digest it returns when it does not raise.
CalculateHash(amendment, parent_hash) == Sha256(JsonDumps(ToDict(amendment), parent_hash))

\* isinstance(x, Amendment): reference 0 stands for any other object.
IsAmendment(h, ref) == ref \in 1..Len(h)

\* ChainNode.__init__
ChainNodeInitUnchecked(h, ref, parent_hash) ==
    [raised |-> "",
     node |-> [amendment |-> ref, parent_hash |-> parent_hash,
               hash |-> Sha256(<<ref, parent_hash>>)]]

ChainNodeInitHashNoParent(h, ref, parent_hash) ==
    IF ~IsAmendment(h, ref) THEN [raised |-> "TypeError"]
    ELSE [raised |-> "",
          node |-> [amendment |-> ref,
                    parent_hash |-> parent_hash,
                    hash |-> CalculateHash(h[ref], None)]]

ChainNodeInit(h, ref, parent_hash) ==
    IF ~IsAmendment(h, ref) THEN [raised |-> "TypeError"]
    ELSE IF CalculateHashRaises(h[ref]) THEN [raised |-> "RuntimeError"]
    ELSE [raised |-> "",
          node |-> [amendment |-> ref,
                    parent_hash |-> parent_hash,
                    hash |-> CalculateHash(h[ref], parent_hash)]]

\* ChainNode.verify
NodeVerifyHashPresent(h, node) == node.hash # None

NodeVerify(h, node) == node.hash = CalculateHash(h[node.amendment], node.parent_hash)

\* ------------------------------------------------------------------ Config
\* class Config of lines 17-31 and the class Config of lines 685-716 that the
\* module body binds to the same global name when it runs to its end.
ConfigFirst == [MAX_CHAIN_SIZE |-> MAX_CHAIN_SIZE]
ConfigSecond == [config_file |-> "config.json"]

\* -------------------------------------------------------------- HashChain
\* HashChain.__init__: the exception raised ("" when none) and the new ledger.
HashChainInitNoTitleCheck(act_id, act_title) ==
    IF NotText(act_id) THEN [raised |-> "ValueError"]
    ELSE [raised |-> "",
          obj |-> [act_id |-> act_id, act_title |-> act_title, chain |-> <<>>]]

HashChainInit(act_id, act_title) ==
    IF NotText(act_id) \/ NotText(act_title) THEN [raised |-> "ValueError"]
    ELSE [raised |-> "",
          obj |-> [act_id |-> act_id, act_title |-> act_title, chain |-> <<>>]]

NoResult == [op |-> "none", raised |-> "", logged |-> <<>>]

\* ---------------------------------------------------------------- AuditLog
\* AuditLog.__init__ (called at line 237 by every HashChain that passes its
\* argument checks): logging.getLogger("audit") is one logger per process,
\* and addHandler attaches one more FileHandler to it.
AuditLogInit(n) == n + 1

\* What reaches audit.log for the events one call passed to AuditLog.log:
\* logger.info hands each message to every attached handler.
AuditWritten(n, logged) ==
    [k \in 1..(n * Len(logged)) |-> logged[((k - 1) \div n) + 1]]

\* The (record, parent_hash, hash) an entry stores, the record read through
\* the entry's reference.
Entry(h, node) ==
    [record |-> ToDict(h[node.amendment]),
     parent_hash |-> node.parent_hash,
     hash |-> node.hash]

Entries(h, c) == [i \in 1..Len(c) |-> Entry(h, c[i])]

\* Line 245: the hash of the current last entry, None on an empty ledger.
TailHashOfFirst(c) == IF c # <<>> THEN c[1].hash ELSE None

TailHash(c) == IF c # <<>> THEN c[Len(c)].hash ELSE None

\* get_history
GetHistoryRowsZeroBased(h, c) ==
    [i \in 1..Len(c) |->
        [version |-> i - 1,
         hash |-> c[i].hash,
         parent_hash |-> c[i].parent_hash,
         amendment |-> ToDict(h[c[i].amendment])]]

GetHistoryRowsFlat(h, c) ==
    [i \in 1..Len(c) |->
        [version |-> i,
         hash |-> c[i].hash,
         parent_hash |-> c[i].parent_hash,
         content |-> h[c[i].amendment].content,
         change_type |-> h[c[i].amendment].change_type,
         author |-> h[c[i].amendment].author,
         summary |-> h[c[i].amendment].summary,
         timestamp |-> h[c[i].amendment].timestamp]]

GetHistoryRows(h, c) ==
    [i \in 1..Len(c) |->
        [version |-> i,
         hash |-> c[i].hash,
         parent_hash |-> c[i].parent_hash,
         amendment |-> ToDict(h[c[i].amendment])]]

\* list_amendments (src/app.py): the AmendmentResponse built from one row of
\* get_history.
AmendmentResponse(entry) ==
    [version |-> entry.version,
     hash |-> entry.hash,
     parent_hash |-> entry.parent_hash,
     content |-> entry.amendment.content,
     change_type |-> entry.amendment.change_type,
     author |-> entry.amendment.author,
     summary |-> entry.amendment.summary,
     timestamp |-> entry.amendment.timestamp]

\* The checks of one pass of the loop of verify_integrity (i is 1-based here,
\* the code's index is i - 1).
HashMismatchAt(h, c, i) == ~NodeVerify(h, c[i])
ParentLinkBrokenAt(c, i) == i > 1 /\ c[i].parent_hash # c[i - 1].hash

\* verify_integrity: the outcome, the audit events it logs, and the number of
\* entries its loop got to (`examined`) before it returned or raised.
VerifyIntegrity(cfg, h, c) ==
    IF "MAX_CHAIN_SIZE" \notin DOMAIN cfg
    THEN [op |-> "verify_integrity", raised |-> "AttributeError", logged |-> <<>>,
          examined |-> 0]
    ELSE IF Len(c) > cfg.MAX_CHAIN_SIZE
    THEN [op |-> "verify_integrity", raised |-> "", ret |-> FALSE, examined |-> 0,
          logged |-> <<[event |-> "chain_too_large", size |-> Len(c)]>>]
    ELSE LET stops == {i \in 1..Len(c) : \/ CalculateHashRaises(h[c[i].amendment])
                                         \/ HashMismatchAt(h, c, i)
                                         \/ ParentLinkBrokenAt(c, i)}
         IN  IF stops = {}
             THEN [op |-> "verify_integrity", raised |-> "", ret |-> TRUE,
                   examined |-> Len(c),
                   logged |-> <<[event |-> "chain_verified", amendments |-> Len(c)]>>]
             ELSE LET i == CHOOSE k \in stops : \A j \in stops : k <= j
                  IN  IF CalculateHashRaises(h[c[i].amendment])
                      THEN [op |-> "verify_integrity", raised |-> "RuntimeError",
                            logged |-> <<>>, examined |-> i]
                      ELSE [op |-> "verify_integrity", raised |-> "", ret |-> FALSE,
                            examined |-> i,
                            logged |-> <<[event |-> "tampering_detected",
                                          node |-> i - 1,
                                          reason |-> IF HashMismatchAt(h, c, i)
                                                     THEN "hash_mismatch"
                                                     ELSE "parent_link_broken"]>>]

\* ------------------------------------------------------------------ inputs
StrA == <<"A">>
StrB == <<"B">>
Blank == <<" ">>
Alice == <<"A","l">>
Bob == <<"B","o">>

\* Calls of the Amendment constructor made on the ledger specifications: the
\* arguments and the instant datetime.now() returns during the call.
AmendmentInputs ==
    { [content |-> StrA, change_type |-> "substantive", author |-> Alice,
       summary |-> None, llm |-> FALSE, now |-> "t1"],
      [content |-> StrB, change_type |-> "editorial", author |-> Bob,
       summary |-> StrA, llm |-> TRUE, now |-> "t2"],
      [content |-> Blank, change_type |-> "substantive", author |-> Alice,
       summary |-> None, llm |-> FALSE, now |-> "t1"],
      [content |-> StrA, change_type |-> "bogus", author |-> Alice,
       summary |-> None, llm |-> TRUE, now |-> "t2"] }

\* ----------------------------------------------------------------- actions
Idle == [t \in 1..NumThreads |-> "idle"]
NoLocals ==
    [t \in 1..NumThreads |-> [amendment |-> 0, parent_hash |-> None, hash |-> None]]

\* No read in progress.
NoReader == [pc |-> "idle"]

\* RateLimiter.__init__: self.requests = {}
NoRequests == [c \in {} |-> <<>>]

\* The module as `python hash_chain.py` runs it (the __main__ block of lines
\* 531-674 exits before line 676, Config is the class of line 17), or as any
\* importer sees it (the module body ran to its end, Config is the class of
\* line 685).  A HashChain("ACT-1", "Test Act") has just been constructed.
Init ==
    /\ Config \in {ConfigFirst, ConfigSecond}
    /\ heap = <<>>
    /\ chain = <<>>
    /\ result = NoResult
    /\ appended = <<>>
    /\ tamperLog = {}
    /\ pc = Idle
    /\ local = NoLocals
    /\ reader = NoReader
    /\ limiter = NoRequests
    /\ clock = 0
    /\ calls = <<>>
    /\ handlers = 1
    /\ current_chain = None

\* Amendment(content, change_type, author, summary, llm)
NewAmendment ==
    \E inp \in AmendmentInputs :
        LET r == AmendmentInit(inp.content, inp.change_type, inp.author,
                               inp.summary, inp.llm, inp.now)
        IN  /\ IF r.raised # ""
               THEN /\ result' = [op |-> "Amendment", raised |-> r.raised, logged |-> <<>>]
                    /\ UNCHANGED heap
               ELSE /\ Len(heap) < MaxObjs
                    /\ heap' = Append(heap, r.obj)
                    /\ result' = [op |-> "Amendment", raised |-> "", logged |-> <<>>,
                                  ret |-> Len(heap) + 1]
            /\ UNCHANGED <<Config, appVars, reader, rateVars, chain, appended, tamperLog, pc, local>>

\* ChainNode(ref, parent_hash) called directly, as the test code does: on any
\* object, with no parent or with the hash of the ledger's tail.
NewChainNode ==
    \E ref \in 0..Len(heap), parent_hash \in {None, TailHash(chain)} :
        LET r == ChainNodeInit(heap, ref, parent_hash)
        IN  /\ result' = IF r.raised # ""
                         THEN [op |-> "ChainNode", arg |-> ref, raised |-> r.raised,
                               logged |-> <<>>]
                         ELSE [op |-> "ChainNode", arg |-> ref, raised |-> "",
                               logged |-> <<>>, ret |-> r.node]
            /\ UNCHANGED <<Config, appVars, reader, rateVars, heap, chain, appended, tamperLog, pc, local>>

\* The node add_amendment builds for `ref` on the ledger c (lines 245-246).
NewNodeGenesis(h, c, ref) == ChainNodeInit(h, ref, None)

NewNode(h, c, ref) == ChainNodeInit(h, ref, TailHash(c))

\* Line 247: self.chain.append(node)
ListInsertFront(c, node) == <<node>> \o c

ListAppend(c, node) == Append(c, node)

\* HashChain.add_amendment(ref), called by one caller at a time.
AddAmendment ==
    \E ref \in 0..Len(heap) :
        /\ Len(chain) < MaxLen
        /\ IF ~IsAmendment(heap, ref)
           THEN /\ result' = [op |-> "add_amendment", arg |-> ref,
                                  raised |-> "TypeError", logged |-> <<>>]
                /\ UNCHANGED <<chain, appended>>
           ELSE LET node == NewNode(heap, chain, ref).node
                IN  /\ chain' = ListAppend(chain, node)
                    /\ appended' = Append(appended, Entry(heap, node))
                    /\ result' = [op |-> "add_amendment", arg |-> ref,
                                  raised |-> "", ret |-> node.hash,
                                  logged |-> <<[event |-> "amendment_added",
                                                hash |-> node.hash,
                                                author |-> heap[ref].author]>>]
        /\ UNCHANGED <<Config, appVars, reader, rateVars, heap, tamperLog, pc, local>>

\* HashChain.get_history()
GetHistory ==
    /\ result' = [op |-> "get_history", raised |-> "", logged |-> <<>>,
                  ret |-> GetHistoryRows(heap, chain)]
    /\ UNCHANGED <<Config, appVars, reader, rateVars, heap, chain, appended, tamperLog, pc, local>>

\* HashChain.verify_integrity()
VerifyRepairing ==
    /\ result' = VerifyIntegrity(Config, heap, chain)
    /\ chain' = [i \in 1..Len(chain) |->
                    [chain[i] EXCEPT !.hash =
                        CalculateHash(heap[chain[i].amendment], chain[i].parent_hash)]]
    /\ UNCHANGED <<Config, appVars, reader, rateVars, heap, appended, tamperLog, pc, local>>

Verify ==
    /\ result' = VerifyIntegrity(Config, heap, chain)
    /\ UNCHANGED <<Config, appVars, reader, rateVars, heap, chain, appended, tamperLog, pc, local>>

\* POST /amendments (src/api.py add_amendment): an Amendment is constructed
\* from the request and handed to HashChain.add_amendment at once.
PostAmendment ==
    \E inp \in AmendmentInputs :
        LET r == AmendmentInit(inp.content, inp.change_type, inp.author,
                               inp.summary, inp.llm, inp.now)
        IN  /\ Len(chain) < MaxLen
            /\ IF r.raised # ""
               THEN /\ result' = [op |-> "Amendment", raised |-> r.raised, logged |-> <<>>]
                    /\ UNCHANGED <<heap, chain, appended>>
               ELSE LET h == Append(heap, r.obj)
                        node == NewNode(h, chain, Len(h)).node
                    IN  /\ heap' = h
                        /\ chain' = ListAppend(chain, node)
                        /\ appended' = Append(appended, Entry(h, node))
                        /\ result' = [op |-> "add_amendment", arg |-> Len(h),
                                      raised |-> "", ret |-> node.hash,
                                      logged |-> <<[event |-> "amendment_added",
                                                    hash |-> node.hash,
                                                    author |-> r.obj.author]>>]
            /\ UNCHANGED <<Config, appVars, reader, rateVars, tamperLog, pc, local>>

\* The ledger used through its interface by one caller at a time.
Next == NewAmendment \/ NewChainNode \/ AddAmendment \/ GetHistory \/ Verify

Spec == Init /\ [][Next]_vars

\* ------------------------------------------- the Amendment constructor alone
\* Arguments the callers and the validation tests pass: a non-str (None), the
\* empty string, whitespace only, text, text with surrounding whitespace; the
\* two valid types and strings that are not one of them.
ContentArgs == {None, <<>>, Blank, <<"\t", "\n">>, StrA, <<" ", "A", " ">>}
ChangeTypeArgs == {"substantive", "editorial", "bogus", "", "Substantive"}
AuthorArgs == {None, <<>>, Blank, Alice}

\* Amendment(content, change_type, author): summary and llm left at their
\* defaults.
Construct ==
    \E content \in ContentArgs, change_type \in ChangeTypeArgs, author \in AuthorArgs :
        LET args == [content |-> content, change_type |-> change_type, author |-> author]
            r == AmendmentInit(content, change_type, author, None, FALSE, "t1")
        IN  /\ IF r.raised # ""
               THEN /\ result' = [op |-> "Amendment", args |-> args,
                                  raised |-> r.raised, logged |-> <<>>]
                    /\ UNCHANGED heap
               ELSE /\ Len(heap) < MaxObjs
                    /\ heap' = Append(heap, r.obj)
                    /\ result' = [op |-> "Amendment", args |-> args, raised |-> "",
                                  logged |-> <<>>, ret |-> Len(heap) + 1]
            /\ UNCHANGED <<Config, appVars, reader, rateVars, chain, appended, tamperLog, pc, local>>

NextAmendment == Construct

SpecAmendment == Init /\ [][NextAmendment]_vars

\* Amendment(content, "substantive", author, summary, llm) with valid content,
\* type and author: summary omitted (None), empty, whitespace or text, and a
\* summarizer given or not.
Shall == <<"s", "h", "a", "l", "l">>
SummaryArgs == {None, <<>>, Blank, StrB}

ConstructWithSummary ==
    \E content \in {StrA, Shall}, summary \in SummaryArgs, llm \in BOOLEAN :
        LET args == [content |-> content, summary |-> summary, llm |-> llm]
            r == AmendmentInit(content, "substantive", Alice, summary, llm, "t1")
        IN  /\ Len(heap) < MaxObjs
            /\ heap' = Append(heap, r.obj)
            /\ result' = [op |-> "Amendment", args |-> args, raised |-> "",
                          logged |-> <<>>, ret |-> Len(heap) + 1]
            /\ UNCHANGED <<Config, appVars, reader, rateVars, chain, appended, tamperLog, pc, local>>

NextSummary == ConstructWithSummary

SpecSummary == Init /\ [][NextSummary]_vars

\* ------------------------------------------------------ the summarizer alone
\* Texts handed to simplify: a non-str (None), empty and whitespace-only
\* strings, table keys, and runs of letters around the truncation limit that
\* are joined by nothing, a space or a newline.
Przepisy == <<"p", "r", "z", "e", "p", "i", "s", "y">>
Artykulu == <<"a", "r", "t", "y", "k", "u", "U+00C5", "U+201A", "u">>

Fill(c, n) == [i \in 1..n |-> c]

SimplifyHeads == {<<>>, Shall, Przepisy, Artykulu, Fill("x", SUMMARY_LIMIT \div 2)}
SimplifySeps == {<<>>, <<" ">>, <<"\n">>}
SimplifyMids ==
    {<<>>, Fill("y", SUMMARY_LIMIT \div 4), Fill("y", SUMMARY_LIMIT \div 2 - 1),
     Fill("y", SUMMARY_LIMIT \div 2)}
SimplifyTails == {<<>>, Fill("z", SUMMARY_LIMIT \div 2)}

SimplifyTexts ==
    {None} \cup
    {h \o s1 \o m \o s2 \o t :
        h \in SimplifyHeads, s1 \in SimplifySeps, m \in SimplifyMids,
        s2 \in SimplifySeps, t \in SimplifyTails}

\* LLMSummaryGenerator(api_key).simplify(text), api_key given or not. The
\* generator keeps no state between calls, so a behaviour makes one call.
SimplifyCall ==
    /\ result = NoResult
    /\ \E text \in SimplifyTexts, use_real_llm \in BOOLEAN :
           LET steps == SimplifySteps(use_real_llm, text)
           IN  result' = [op |-> "simplify", text |-> text,
                          use_real_llm |-> use_real_llm, simple |-> steps.simple,
                          raised |-> "", ret |-> steps.ret, logged |-> <<>>]
    /\ UNCHANGED <<Config, appVars, reader, rateVars, heap, chain, appended, tamperLog, pc, local>>

NextSimplify == SimplifyCall

SpecSimplify == Init /\ [][NextSimplify]_vars

\* ------------------------------------------------- hashes of distinct records
\* Records that differ in content, in author, or in both, everything else
\* (type, summary, instant of construction) being equal.
HashContents == {StrA, StrB}
HashAuthors == {Alice, Bob}

\* amendment = Amendment(content, "substantive", author); chain.add_amendment(amendment)
\* on a ledger within the size limit.
PostRecord ==
    \E content \in HashContents, author \in HashAuthors :
        LET r == AmendmentInit(content, "substantive", author, None, FALSE, "t1")
            h == Append(heap, r.obj)
            node == NewNode(h, chain, Len(h)).node
        IN  /\ Len(chain) < MAX_CHAIN_SIZE
            /\ heap' = h
            /\ chain' = ListAppend(chain, node)
            /\ appended' = Append(appended, Entry(h, node))
            /\ result' = [op |-> "add_amendment", arg |-> Len(h),
                          raised |-> "", ret |-> node.hash,
                          logged |-> <<[event |-> "amendment_added",
                                        hash |-> node.hash,
                                        author |-> r.obj.author]>>]
            /\ UNCHANGED <<Config, appVars, reader, rateVars, tamperLog, pc, local>>

\* node1 = ChainNode(Amendment(c1, "substantive", a1), parent);
\* node2 = ChainNode(Amendment(c2, "substantive", a2), parent): two standalone
\* nodes with the same parent.
NodePair ==
    \E c1 \in HashContents, a1 \in HashAuthors,
       c2 \in HashContents, a2 \in HashAuthors,
       parent_hash \in {None, TailHash(chain)} :
        LET amendment1 == AmendmentInit(c1, "substantive", a1, None, FALSE, "t1").obj
            amendment2 == AmendmentInit(c2, "substantive", a2, None, FALSE, "t1").obj
            h == <<amendment1, amendment2>>
            node1 == ChainNodeInit(h, 1, parent_hash).node
            node2 == ChainNodeInit(h, 2, parent_hash).node
        IN  /\ result' = [op |-> "ChainNodePair", raised |-> "", logged |-> <<>>,
                          first |-> [content |-> amendment1.content,
                                     author |-> amendment1.author, hash |-> node1.hash],
                          second |-> [content |-> amendment2.content,
                                      author |-> amendment2.author, hash |-> node2.hash]]
            /\ UNCHANGED <<Config, appVars, reader, rateVars, heap, chain, appended, tamperLog, pc, local>>

NextHash == PostRecord \/ NodePair

SpecHash == Init /\ [][NextHash]_vars

\* ------------------------------------------------------ creating a ledger
ActIdArgs == {None, <<>>, Blank, <<"A", "C", "T">>, <<" ", "A", " ">>}
ActTitleArgs == {None, <<>>, <<"\t", " ">>, <<"T">>}

\* chain = HashChain(act_id, act_title): when the constructor returns, the
\* name is bound to the new ledger (the former one and its records are
\* dropped); when it raises, the name keeps what it was bound to.
NewHashChain ==
    \E act_id \in ActIdArgs, act_title \in ActTitleArgs :
        LET args == [act_id |-> act_id, act_title |-> act_title]
            r == HashChainInit(act_id, act_title)
        IN  /\ IF r.raised # ""
               THEN /\ result' = [op |-> "HashChain", args |-> args,
                                  raised |-> r.raised, logged |-> <<>>]
                    /\ UNCHANGED <<heap, chain, appended>>
                    /\ UNCHANGED handlers
               ELSE /\ handlers < MaxInstances
                    /\ result' = [op |-> "HashChain", args |-> args, raised |-> "",
                                  logged |-> <<>>, ret |-> r.obj]
                    /\ chain' = r.obj.chain
                    /\ heap' = <<>>
                    /\ appended' = <<>>
                    /\ handlers' = AuditLogInit(handlers)
            /\ UNCHANGED <<Config, current_chain, reader, rateVars, tamperLog, pc, local>>

NextCreate == NewHashChain \/ PostRecord

SpecCreate == Init /\ [][NextCreate]_vars

\* ------------------------------------------------- direct writes (tampering)
\* What the repository's test code does to a ledger behind its interface:
\* assignments to the attributes of a stored node or of its Amendment, and
\* list.insert on HashChain.chain.
Tampered == <<"T">>
Mallory == <<"M">>
FakeHash == <<"fake_hash">>
FakeParentHash == <<"fake_parent_hash">>

TamperValue(field) ==
    CASE field = "content" -> Tampered
      [] field = "author" -> Mallory
      [] field = "summary" -> Tampered
      [] field = "change_type" -> "bogus"
      [] field = "timestamp" -> DatetimeObject

RecordFields == {"content", "change_type", "author", "summary", "timestamp"}

\* A run makes at most MaxTampers direct writes, each place written once,
\* after the ledger was built.
CanTamper(t) == Cardinality(tamperLog) < MaxTampers /\ t \notin tamperLog

\* chain.chain[i].amendment.<field> = value   (i is the code's 0-based index)
TamperRecord ==
    \E i \in 0..(Len(chain) - 1), field \in RecordFields :
        LET ref == chain[i + 1].amendment
        IN  /\ CanTamper([kind |-> "record", index |-> i, field |-> field])
            /\ heap[ref][field] # TamperValue(field)
            /\ heap' = [heap EXCEPT ![ref][field] = TamperValue(field)]
            /\ tamperLog' = tamperLog \cup {[kind |-> "record", index |-> i, field |-> field]}
            /\ result' = NoResult
            /\ UNCHANGED <<Config, appVars, reader, rateVars, chain, appended, pc, local>>

\* chain.chain[i].hash = value: a fake digest, or the digest recomputed over
\* the node's current fields (when _calculate_hash returns one).
TamperHash ==
    \E i \in 0..(Len(chain) - 1) :
        LET node == chain[i + 1]
        IN  \E value \in {FakeHash} \cup
                         (IF CalculateHashRaises(heap[node.amendment]) THEN {}
                          ELSE {CalculateHash(heap[node.amendment], node.parent_hash)}) :
                /\ CanTamper([kind |-> "hash", index |-> i])
                /\ value # node.hash
                /\ chain' = [chain EXCEPT ![i + 1].hash = value]
                /\ tamperLog' = tamperLog \cup {[kind |-> "hash", index |-> i]}
                /\ result' = NoResult
                /\ UNCHANGED <<Config, appVars, reader, rateVars, heap, appended, pc, local>>

\* chain.chain[i].parent_hash = value: a fake digest, or the stored hash of the
\* entry before it.
TamperParent ==
    \E i \in 0..(Len(chain) - 1) :
        LET node == chain[i + 1]
        IN  \E value \in {FakeParentHash} \cup
                         (IF i > 0 THEN {chain[i].hash} ELSE {}) :
                /\ CanTamper([kind |-> "parent", index |-> i])
                /\ value # node.parent_hash
                /\ chain' = [chain EXCEPT ![i + 1].parent_hash = value]
                /\ tamperLog' = tamperLog \cup {[kind |-> "parent", index |-> i]}
                /\ result' = NoResult
                /\ UNCHANGED <<Config, appVars, reader, rateVars, heap, appended, pc, local>>

\* list.insert(k, x)
ListInsert(c, k, x) == SubSeq(c, 1, k) \o <<x>> \o SubSeq(c, k + 1, Len(c))

\* fake_amendment = Amendment("INSERTED CONTENT", "substantive", "Attacker");
\* fake_node = ChainNode(fake_amendment, parent_hash=<hash of the entry before k>);
\* chain.chain.insert(k, fake_node)
FakeAmendment == AmendmentInit(Tampered, "substantive", Mallory, None, TRUE, "t3").obj

TamperInsert ==
    \E k \in 0..Len(chain) :
        LET h == Append(heap, FakeAmendment)
            before == IF k > 0 THEN chain[k].hash ELSE None
            fake_node == ChainNodeInit(h, Len(h), before).node
        IN  /\ CanTamper([kind |-> "insert", index |-> k])
            /\ Len(chain) < MaxLen
            /\ heap' = h
            /\ chain' = ListInsert(chain, k, fake_node)
            /\ tamperLog' = tamperLog \cup {[kind |-> "insert", index |-> k]}
            /\ result' = NoResult
            /\ UNCHANGED <<Config, appVars, reader, rateVars, appended, pc, local>>

Tamper == TamperRecord \/ TamperHash \/ TamperParent \/ TamperInsert

\* A ledger within the size limit is built through its interface, then
\* written to directly, and verified at any point.
NextTamper ==
    \/ (tamperLog = {} /\ Len(chain) < MAX_CHAIN_SIZE /\ PostAmendment)
    \/ Verify
    \/ Tamper

SpecTamper == Init /\ [][NextTamper]_vars

\* ------------------------------------------- removal of the leading entries
\* del chain.chain[0]: the oldest entry is removed from the storage; the new
\* first entry keeps the parent_hash that names the removed one.
TamperRemoveFirst ==
    /\ chain # <<>>
    /\ chain' = Tail(chain)
    /\ tamperLog' = tamperLog \cup {[kind |-> "remove_first", index |-> Len(chain)]}
    /\ result' = NoResult
    /\ UNCHANGED <<Config, appVars, reader, rateVars, heap, appended, pc, local>>

\* A ledger within the size limit is built through its interface, loses
\* leading entries, and is verified at any point.
NextTruncate ==
    \/ (tamperLog = {} /\ Len(chain) < MAX_CHAIN_SIZE /\ PostAmendment)
    \/ Verify
    \/ TamperRemoveFirst

SpecTruncate == Init /\ [][NextTruncate]_vars

\* ------------------------------------------ writes to the rows of get_history
\* Line 263: the object behind row['amendment']: the dict to_dict() has just
\* built (0: not an object of the heap), or the stored Amendment itself.
RowAmendmentStoreShared(node) == node.amendment

RowAmendmentStore(node) == 0

\* rows = chain.get_history(); rows[i]['hash'] = ..., or
\* rows[i]['amendment'][field] = ...: the caller changes a row it was given.
\* result.ret is the rows as the caller now holds them.
MutateRow ==
    \E i \in 1..Len(chain),
       field \in {"hash", "parent_hash", "content", "author", "summary"} :
        LET target == RowAmendmentStore(chain[i])
            nested == field \in RecordFields
            value == IF nested THEN TamperValue(field) ELSE FakeHash
            writes == IF result.op = "row_write" THEN result.writes ELSE 0
            rows == IF nested
                    THEN [result.ret EXCEPT ![i].amendment[field] = value]
                    ELSE [result.ret EXCEPT ![i][field] = value]
        IN  /\ result.op \in {"get_history", "row_write"}
            /\ i <= Len(result.ret)
            /\ writes < MaxTampers
            /\ rows # result.ret
            /\ result' = [op |-> "row_write", raised |-> "", logged |-> <<>>,
                          ret |-> rows, writes |-> writes + 1]
            /\ heap' = IF nested /\ target # 0
                       THEN [heap EXCEPT ![target][field] = value]
                       ELSE heap
            /\ UNCHANGED <<Config, appVars, reader, rateVars, chain, appended,
                           tamperLog, pc, local>>

\* A ledger is built and verified through its interface while a caller
\* writes to the rows get_history gave it.
NextRows ==
    \/ (Len(chain) < MAX_CHAIN_SIZE /\ PostAmendment)
    \/ GetHistory
    \/ MutateRow
    \/ Verify

SpecRows == Init /\ [][NextRows]_vars

\* ------------------------------------------------ the HTTP layer (src/app.py)
\* current_chain bound to a HashChain: the ledger held in chain and heap.
\* While current_chain is None those two hold the ledger that was bound last,
\* which no endpoint can reach any more.
Loaded == <<"HashChain">>

\* The files a client names in POST /ingest.
Filepaths == {"missing.xml", "empty.xml", "one.xml", "two.xml", "bad.xml", "long.xml"}

\* LegalDocumentParser.parse_file: the list of amendment dicts read from the
\* file, [] when the file cannot be parsed or holds no Amendment element.
\* `now` is the instant datetime.now() returns when the Amendment is built.
ParseFile(filepath) ==
    CASE filepath = "one.xml" ->
            <<[content |-> StrA, change_type |-> "substantive", author |-> Alice,
               summary |-> StrB, now |-> "t1"]>>
      [] filepath = "two.xml" ->
            <<[content |-> StrB, change_type |-> "editorial", author |-> Bob,
               summary |-> StrA, now |-> "t1"],
              [content |-> StrA, change_type |-> "substantive", author |-> Alice,
               summary |-> None, now |-> "t2"]>>
      [] filepath = "bad.xml" ->
            <<[content |-> StrA, change_type |-> "substantive", author |-> Alice,
               summary |-> StrB, now |-> "t1"],
              [content |-> StrB, change_type |-> "bogus", author |-> Bob,
               summary |-> None, now |-> "t2"]>>
      [] filepath = "long.xml" ->
            [k \in 1..(MAX_CHAIN_SIZE + 1) |->
                [content |-> StrA, change_type |-> "editorial", author |-> Bob,
                 summary |-> StrB, now |-> "t2"]]
      [] OTHER -> <<>>

\* No amendment imported yet: the HashChain of line 52, no exception, no
\* audit event.
IngestStart == [raised |-> "", heap |-> <<>>, chain |-> <<>>, logged |-> <<>>]

\* Line 62, chain.add_amendment(amendment), for the outcome r of the
\* Amendment constructor; st.raised is the exception that ended the loop
\* ("" when none).
IngestAdd(st, r) ==
    IF r.raised # ""
    THEN [st EXCEPT !.raised = r.raised]
    ELSE LET h2 == Append(st.heap, r.obj)
             node == NewNode(h2, st.chain, Len(h2)).node
         IN  [raised |-> "",
              heap |-> h2,
              chain |-> ListAppend(st.chain, node),
              logged |-> Append(st.logged, [event |-> "amendment_added",
                                            hash |-> node.hash,
                                            author |-> r.obj.author])]

\* One pass of the loop of ingest_xml_file (lines 55-62) for the dict d: the
\* Amendment is built with the generator of the pipeline as llm, then
\* appended.
IngestOne(d, st) ==
    IngestAdd(st, AmendmentInit(d.content, d.change_type, d.author, d.summary,
                                TRUE, d.now))

\* The loop of lines 54-62 over the dicts still to import.
RECURSIVE IngestLoop(_, _)
IngestLoop(data, st) ==
    IF data = <<>> \/ st.raised # "" THEN st
    ELSE IngestLoop(Tail(data), IngestOne(Head(data), st))

\* The ledger each file builds, whatever Config is bound to.
IngestBuilt == [f \in Filepaths |-> IngestLoop(ParseFile(f), IngestStart)]

\* Lines 64-65 for the ledger b the loop built: verify_integrity is called on
\* it, its return value dropped, and the chain returned.
IngestVerify(cfg, b) ==
    LET v == VerifyIntegrity(cfg, b.heap, b.chain)
    IN  IF b.raised # ""
        THEN [raised |-> b.raised, constructed |-> TRUE, logged |-> b.logged]
        ELSE IF v.raised # ""
        THEN [raised |-> v.raised, constructed |-> TRUE, logged |-> b.logged]
        ELSE [raised |-> "", constructed |-> TRUE,
              ret |-> [heap |-> b.heap, chain |-> b.chain],
              logged |-> b.logged \o v.logged]

\* DataIngestionPipeline.ingest_xml_file: None for a file with no amendments;
\* otherwise a HashChain is constructed, filled and verified.
IngestXmlFile(cfg, filepath) ==
    IF ParseFile(filepath) = <<>>
    THEN [raised |-> "", constructed |-> FALSE, ret |-> None, logged |-> <<>>]
    ELSE IngestVerify(cfg, IngestBuilt[filepath])

\* Lines 188-200 of ingest_xml for the outcome r of ingest_xml_file: line 188
\* binds current_chain to whatever was returned before line 189 looks at it;
\* an exception leaves line 188 unfinished.  Every failure is answered with
\* status 400; `cause` is the exception of the pipeline ("" when it returned
\* None, which it does exactly when it constructed no HashChain).
IngestBind(filepath, r) ==
    /\ r.constructed => handlers < MaxInstances
    /\ handlers' = IF r.constructed THEN AuditLogInit(handlers) ELSE handlers
    /\ IF r.raised # ""
       THEN /\ result' = [op |-> "POST /ingest", arg |-> filepath, status |-> 400,
                          raised |-> "HTTPException", cause |-> r.raised,
                          logged |-> r.logged]
            /\ UNCHANGED <<current_chain, heap, chain, appended>>
       ELSE IF ~r.constructed
       THEN /\ result' = [op |-> "POST /ingest", arg |-> filepath, status |-> 400,
                          raised |-> "HTTPException", cause |-> "",
                          logged |-> r.logged]
            /\ current_chain' = None
            /\ UNCHANGED <<heap, chain, appended>>
       ELSE /\ result' = [op |-> "POST /ingest", arg |-> filepath, status |-> 200,
                          raised |-> "", logged |-> r.logged,
                          ret |-> [success |-> TRUE,
                                   amendments_imported |-> Len(r.ret.chain)]]
            /\ current_chain' = Loaded
            /\ heap' = r.ret.heap
            /\ chain' = r.ret.chain
            /\ appended' = Entries(r.ret.heap, r.ret.chain)
    /\ UNCHANGED <<Config, reader, rateVars, tamperLog, pc, local>>

\* POST /ingest (ingest_xml)
IngestXml(filepath) == IngestBind(filepath, IngestXmlFile(Config, filepath))

\* GET /amendments (list_amendments) with its default query parameters.
ListAmendments ==
    /\ result' = IF current_chain = None
                 THEN [op |-> "GET /amendments", status |-> 404,
                       raised |-> "HTTPException", logged |-> <<>>]
                 ELSE LET rows == GetHistoryRows(heap, chain)
                      IN  [op |-> "GET /amendments", status |-> 200, raised |-> "",
                           logged |-> <<>>,
                           ret |-> [i \in 1..Len(rows) |-> AmendmentResponse(rows[i])]]
    /\ UNCHANGED <<Config, appVars, reader, rateVars, heap, chain, appended, tamperLog, pc, local>>

\* GET /verify (verify_chain): an exception of verify_integrity is not caught
\* and the server answers 500.
VerifyChain ==
    /\ result' = IF current_chain = None
                 THEN [op |-> "GET /verify", status |-> 404,
                       raised |-> "HTTPException", logged |-> <<>>]
                 ELSE LET v == VerifyIntegrity(Config, heap, chain)
                      IN  IF v.raised # ""
                          THEN [op |-> "GET /verify", status |-> 500,
                                raised |-> v.raised, logged |-> v.logged]
                          ELSE [op |-> "GET /verify", status |-> 200, raised |-> "",
                                logged |-> v.logged,
                                ret |-> [valid |-> v.ret,
                                         total_amendments |-> Len(chain),
                                         last_hash |-> IF chain # <<>>
                                                       THEN TailHash(chain)
                                                       ELSE <<"N/A">>]]
    /\ UNCHANGED <<Config, appVars, reader, rateVars, heap, chain, appended, tamperLog, pc, local>>

\* POST /amendments (create_amendment, src/app.py lines 105-119): lines 111-117
\* call Amendment with the keyword llm_generator, which its constructor
\* does not take, so the call raises TypeError before anything is appended.
CreateAmendment ==
    \E inp \in AmendmentInputs :
        /\ result' = IF current_chain = None
                     THEN [op |-> "POST /amendments", arg |-> inp, status |-> 404,
                           raised |-> "HTTPException", logged |-> <<>>]
                     ELSE [op |-> "POST /amendments", arg |-> inp, status |-> 500,
                           raised |-> "TypeError", logged |-> <<>>]
        /\ UNCHANGED <<Config, appVars, reader, rateVars, heap, chain, appended, tamperLog, pc, local>>

\* The server answering requests one at a time.
NextIngest ==
    \/ \E filepath \in Filepaths : IngestXml(filepath)
    \/ CreateAmendment
    \/ ListAmendments
    \/ VerifyChain

SpecIngest == Init /\ [][NextIngest]_vars

\* ------------------------------------------- concurrent add_amendment calls
\* add_amendment takes no lock: a thread can be preempted between its
\* statements.  Lines 242-245: the isinstance check and the read of the tail.
AddReadTail(t) ==
    \E ref \in 0..Len(heap) :
        /\ pc[t] = "idle"
        /\ Len(chain) + Cardinality({u \in 1..NumThreads : pc[u] # "idle"}) < MaxLen
        /\ IF ~IsAmendment(heap, ref)
           THEN /\ result' = [op |-> "add_amendment", arg |-> ref,
                                  raised |-> "TypeError", logged |-> <<>>]
                /\ UNCHANGED <<pc, local>>
           ELSE /\ local' = [local EXCEPT ![t] = [amendment |-> ref,
                                                  parent_hash |-> TailHash(chain),
                                                  hash |-> None]]
                /\ pc' = [pc EXCEPT ![t] = "read"]
                /\ UNCHANGED result
        /\ UNCHANGED <<Config, appVars, reader, rateVars, heap, chain, appended, tamperLog>>

\* Line 246: node = ChainNode(amendment, parent_hash)
AddBuildNode(t) ==
    /\ pc[t] = "read"
    /\ local' = [local EXCEPT ![t] =
                    ChainNodeInit(heap, local[t].amendment, local[t].parent_hash).node]
    /\ pc' = [pc EXCEPT ![t] = "built"]
    /\ UNCHANGED <<Config, appVars, reader, rateVars, heap, chain, result, appended, tamperLog>>

\* Lines 247-255: self.chain.append(node), the audit event, return node.hash
AddAppend(t) ==
    /\ pc[t] = "built"
    /\ chain' = ListAppend(chain, local[t])
    /\ appended' = Append(appended, Entry(heap, local[t]))
    /\ result' = [op |-> "add_amendment", arg |-> local[t].amendment,
                  raised |-> "", ret |-> local[t].hash,
                  logged |-> <<[event |-> "amendment_added",
                                hash |-> local[t].hash,
                                author |-> heap[local[t].amendment].author]>>]
    /\ pc' = [pc EXCEPT ![t] = "idle"]
    /\ local' = [local EXCEPT ![t] = NoLocals[t]]
    /\ UNCHANGED <<Config, appVars, reader, rateVars, heap, tamperLog>>

\* POST /amendments served by several threads on one ledger.
NextConc ==
    \/ NewAmendment
    \/ \E t \in 1..NumThreads : AddReadTail(t) \/ AddBuildNode(t) \/ AddAppend(t)

SpecConc == Init /\ [][NextConc]_vars

\* ------------------------------------- a read concurrent with add_amendment
\* One thread appends through POST /amendments while another runs
\* get_history or verify_integrity; neither takes a lock.
Writer == 1

\* The Amendment is constructed and add_amendment runs up to the read of the
\* tail (lines 242-245).
PostReadTail ==
    \E inp \in AmendmentInputs :
        LET r == AmendmentInit(inp.content, inp.change_type, inp.author,
                               inp.summary, inp.llm, inp.now)
        IN  /\ pc[Writer] = "idle"
            /\ Len(chain) < MAX_CHAIN_SIZE
            /\ IF r.raised # ""
               THEN /\ result' = [op |-> "Amendment", raised |-> r.raised, logged |-> <<>>]
                    /\ UNCHANGED <<heap, pc, local>>
               ELSE /\ heap' = Append(heap, r.obj)
                    /\ local' = [local EXCEPT ![Writer] =
                                    [amendment |-> Len(heap) + 1,
                                     parent_hash |-> TailHash(chain), hash |-> None]]
                    /\ pc' = [pc EXCEPT ![Writer] = "read"]
                    /\ UNCHANGED result
            /\ UNCHANGED <<Config, appVars, reader, rateVars, chain, appended, tamperLog>>

\* The call starts: get_history enters its comprehension; verify_integrity
\* evaluates the size guard of line 268.
ReadStart ==
    \E op \in {"get_history", "verify_integrity"} :
        /\ reader.pc = "idle"
        /\ reader' =
              IF op = "verify_integrity" /\ "MAX_CHAIN_SIZE" \notin DOMAIN Config
              THEN [pc |-> "done", op |-> op, start |-> Len(chain), seen |-> <<>>,
                    raised |-> "AttributeError"]
              ELSE IF op = "verify_integrity" /\ Len(chain) > Config.MAX_CHAIN_SIZE
              THEN [pc |-> "done", op |-> op, start |-> Len(chain), seen |-> <<>>,
                    raised |-> "", ret |-> FALSE]
              ELSE [pc |-> "walk", op |-> op, start |-> Len(chain), seen |-> <<>>,
                    raised |-> ""]
        /\ UNCHANGED <<Config, appVars, rateVars, heap, chain, result, appended, tamperLog, pc, local>>

\* One iteration of `for i, node in enumerate(self.chain)`: the next entry
\* of the list as it is now is read, and verify_integrity checks it.
ReadNext ==
    LET i == Len(reader.seen) + 1
    IN  /\ reader.pc = "walk"
        /\ i <= Len(chain)
        /\ reader' =
              IF /\ reader.op = "verify_integrity"
                 /\ (HashMismatchAt(heap, chain, i) \/ ParentLinkBrokenAt(chain, i))
              THEN [reader EXCEPT !.pc = "done", !.seen = Append(@, chain[i])]
                       @@ [ret |-> FALSE]
              ELSE [reader EXCEPT !.seen = Append(@, chain[i])]
        /\ UNCHANGED <<Config, appVars, rateVars, heap, chain, result, appended, tamperLog, pc, local>>

\* The iterator finds no further entry: the call returns.
ReadEnd ==
    /\ reader.pc = "walk"
    /\ Len(reader.seen) >= Len(chain)
    /\ reader' = [reader EXCEPT !.pc = "done"]
                    @@ [ret |-> IF reader.op = "verify_integrity" THEN TRUE
                                ELSE GetHistoryRows(heap, reader.seen)]
    /\ UNCHANGED <<Config, appVars, rateVars, heap, chain, result, appended, tamperLog, pc, local>>

\* The caller has the answer; a later call starts afresh.
ReadReturn ==
    /\ reader.pc = "done"
    /\ reader' = NoReader
    /\ UNCHANGED <<Config, appVars, rateVars, heap, chain, result, appended, tamperLog, pc, local>>

NextRead ==
    \/ PostReadTail
    \/ AddBuildNode(Writer)
    \/ AddAppend(Writer)
    \/ ReadStart
    \/ ReadNext
    \/ ReadEnd
    \/ ReadReturn

SpecRead == Init /\ [][NextRead]_vars

\* --------------------------------------------------------------- RateLimiter
\* RateLimiter(max_requests, window_sec) with small parameters, called by
\* two clients while time passes.
max_requests == 2
window_sec == 3
MaxTime == 4
MaxCalls == 5

Clients == {"client1", "client2"}

\* time.time() has advanced.
Tick ==
    /\ clock < MaxTime
    /\ clock' = clock + 1
    /\ UNCHANGED <<Config, appVars, reader, limiter, calls, heap, chain, result, appended,
                   tamperLog, pc, local>>

\* Line 60: the limit test.
OverLimitOffByOne(kept) == Len(kept) > max_requests

OverLimit(kept) == Len(kept) >= max_requests

\* Lines 50-54: the key of self.requests the call reads and writes.
RequestsKeyShared(client_id) == "client1"

RequestsKey(client_id) == client_id

\* Lines 60-64: the client's record after the call (a refused call returns
\* at line 61, before the append).
RecordCallAlways(kept, now, ret) == Append(kept, now)

RecordCall(kept, now, ret) == IF ret THEN Append(kept, now) ELSE kept

\* RateLimiter.is_allowed(client_id)
IsAllowed(client_id) ==
    LET now == clock
        key == RequestsKey(client_id)
        old == IF key \in DOMAIN limiter THEN limiter[key] ELSE <<>>
        kept == SelectSeq(old, LAMBDA t : now - t < window_sec)
        ret == ~OverLimit(kept)
        new == RecordCall(kept, now, ret)
    IN  /\ Len(calls) < MaxCalls
        /\ limiter' = [c \in DOMAIN limiter \cup {key} |->
                          IF c = key THEN new ELSE limiter[c]]
        /\ result' = [op |-> "is_allowed", arg |-> client_id, raised |-> "",
                      ret |-> ret, logged |-> <<>>]
        /\ calls' = Append(calls, [client |-> client_id, at |-> now, ret |-> ret])
        /\ UNCHANGED <<Config, appVars, reader, clock, heap, chain, appended, tamperLog, pc, local>>

\* limiter.get_remaining(client_id), as the validation scripts call it: the
\* class has no such attribute, the lookup raises.
GetRemaining(client_id) ==
    /\ result' = [op |-> "get_remaining", arg |-> client_id,
                  raised |-> "AttributeError", logged |-> <<>>]
    /\ UNCHANGED <<Config, appVars, reader, rateVars, heap, chain, appended, tamperLog, pc, local>>

NextRate ==
    \/ Tick
    \/ \E client_id \in Clients : IsAllowed(client_id)
    \/ \E client_id \in Clients : GetRemaining(client_id)

SpecRate == Init /\ [][NextRate]_vars

\* ================================================================== claims
Linked(c) ==
    \A i \in 1..Len(c) :
        c[i].parent_hash = IF i = 1 THEN None ELSE c[i - 1].hash

VerifyCalled == result.op = "verify_integrity"
ReturnedTrue == result.raised = "" /\ result.ret = TRUE
ReturnedFalse == result.raised = "" /\ result.ret = FALSE
ReportedAt(i) ==
    /\ Len(result.logged) = 1
    /\ result.logged[1].event = "tampering_detected"
    /\ result.logged[1].node = i
ReportedAs(i, reason) == ReportedAt(i) /\ result.logged[1].reason = reason

\* C1: after any sequence of successful add_amendment calls (and no other
\* write), every entry after the first has parent_hash equal to the stored
\* hash of the entry before it, and the first entry has parent_hash None.
C1_ChainLinkage == Linked(chain)

C1_Witness ==
    Len(chain) >= 3 /\ result.op = "add_amendment" /\ result.raised = ""

\* C2 (as claimed): on a ledger built by n add_amendment calls, n within the
\* configured maximum, and never tampered with, verify_integrity returns true.
C2_VerifyTrueUntampered ==
    (VerifyCalled /\ Len(chain) <= MAX_CHAIN_SIZE) => ReturnedTrue

\* C3 (as claimed): when the content of one entry was altered after append and
\* its stored hash left alone, verify_integrity returns false and reports that
\* entry's index with hash_mismatch.
C3_ContentTamperReported ==
    \A i \in 0..(Len(chain) - 1) :
        (tamperLog = {[kind |-> "record", index |-> i, field |-> "content"]}
            /\ VerifyCalled)
        => (ReturnedFalse /\ ReportedAs(i, "hash_mismatch"))

\* C4 (as claimed): when the stored hash of one entry was overwritten with a
\* different value, verify_integrity fails and reports the failure at the
\* index of that entry.
C4_HashOverwriteReportedAtIndex ==
    \A i \in 0..(Len(chain) - 1) :
        (tamperLog = {[kind |-> "hash", index |-> i]} /\ VerifyCalled)
        => (ReturnedFalse /\ ReportedAt(i))

\* C5 (as claimed): when parent_hash of a non-first entry i was overwritten
\* with a different value, verify_integrity fails at index i with
\* parent_link_broken.
C5_ParentOverwriteLinkBroken ==
    \A i \in 1..(Len(chain) - 1) :
        (tamperLog = {[kind |-> "parent", index |-> i]} /\ VerifyCalled)
        => (ReturnedFalse /\ ReportedAs(i, "parent_link_broken"))

\* C6 (as claimed): after a validly hashed entry was spliced in at position k
\* of a ledger that has an entry after it, verify_integrity returns false and
\* the failure is detected at index k + 1.
C6_SpliceDetectedAfter ==
    \A k \in 0..(Len(chain) - 2) :
        (tamperLog = {[kind |-> "insert", index |-> k]} /\ VerifyCalled)
        => (ReturnedFalse /\ ReportedAt(k + 1))

\* The entries differ from what add_amendment stored, none was spliced in.
NoSplice == \A t \in tamperLog : t.kind # "insert"
Modified == NoSplice /\ Entries(heap, chain) # appended
HashesKept == \A i \in 1..Len(chain) : chain[i].hash = appended[i].hash
DataKept ==
    \A i \in 1..Len(chain) :
        /\ ToDict(heap[chain[i].amendment]) = appended[i].record
        /\ chain[i].parent_hash = appended[i].parent_hash

\* What C3-C6 say does hold in the runs in which verify_integrity gets as far
\* as its loop: Config is the class of line 17 and the ledger is within the
\* size limit.  An overwritten parent_hash is reported as hash_mismatch there.
WalkReached ==
    "MAX_CHAIN_SIZE" \in DOMAIN Config /\ Len(chain) <= Config.MAX_CHAIN_SIZE

WhereWalkReached_C3 ==
    \A i \in 0..(Len(chain) - 1) :
        (tamperLog = {[kind |-> "record", index |-> i, field |-> "content"]}
            /\ VerifyCalled /\ WalkReached)
        => (ReturnedFalse /\ ReportedAs(i, "hash_mismatch"))

WhereWalkReached_C4 ==
    \A i \in 0..(Len(chain) - 1) :
        (tamperLog = {[kind |-> "hash", index |-> i]} /\ VerifyCalled /\ WalkReached)
        => (ReturnedFalse /\ ReportedAs(i, "hash_mismatch"))

WhereWalkReached_C5 ==
    \A i \in 1..(Len(chain) - 1) :
        (tamperLog = {[kind |-> "parent", index |-> i]} /\ VerifyCalled /\ WalkReached)
        => (ReturnedFalse /\ ReportedAs(i, "hash_mismatch"))

WhereWalkReached_C6 ==
    \A k \in 0..(Len(chain) - 2) :
        (tamperLog = {[kind |-> "insert", index |-> k]} /\ VerifyCalled /\ WalkReached)
        => (ReturnedFalse /\ ReportedAs(k + 1, "parent_link_broken"))

C8_AtomicAppend ==
    /\ \A i, j \in 1..Len(chain) :
          i # j => chain[i].parent_hash # chain[j].parent_hash
    /\ Linked(chain)

\* C9 (as claimed): once an Amendment is constructed its content, change_type
\* and author never take another value.
C9_RecordImmutable ==
    [][\A r \in 1..Len(heap) :
          /\ heap'[r].content = heap[r].content
          /\ heap'[r].change_type = heap[r].change_type
          /\ heap'[r].author = heap[r].author]_vars

\* C10: across add_amendment, get_history and verify_integrity calls the
\* number of entries never decreases and the (record, parent_hash, hash) at
\* every existing index stays as it is.
C10_AppendOnly ==
    [][/\ Len(chain') >= Len(chain)
       /\ \A i \in 1..Len(chain) :
             Entry(heap', chain'[i]) = Entry(heap, chain[i])]_vars

C10_Witness == Len(chain) >= 3 /\ result.op = "get_history"

\* C11: a successful add_amendment(record) on a ledger of length n leaves a
\* ledger of length n + 1 whose first n entries are the former ones and whose
\* last entry wraps that record, has parent_hash equal to the stored hash of
\* the former last entry (None when n = 0), and whose stored hash is the value
\* returned.
C11_AddAmendmentContract ==
    [][(result'.op = "add_amendment" /\ result'.raised = "")
       => LET n == Len(chain)
          IN  /\ Len(chain') = n + 1
              /\ SubSeq(chain', 1, n) = chain
              /\ chain'[n + 1].amendment = result'.arg
              /\ chain'[n + 1].parent_hash = IF n = 0 THEN None ELSE chain[n].hash
              /\ result'.ret = chain'[n + 1].hash]_vars

C11_Witness ==
    /\ Len(chain) >= 2
    /\ result.op = "add_amendment" /\ result.raised = ""
    /\ chain[Len(chain)].amendment = result.arg
    /\ chain[Len(chain)].parent_hash = chain[Len(chain) - 1].hash
    /\ result.ret = chain[Len(chain)].hash

\* Empty or made of whitespace only (or not a str at all).
IsBlank(x) == x = None \/ \A i \in 1..Len(x) : x[i] \in {" ", "\t", "\n"}
InvalidArgs(a) ==
    \/ IsBlank(a.content)
    \/ a.change_type \notin {"substantive", "editorial"}
    \/ IsBlank(a.author)

\* C12: constructing an Amendment raises ValueError and creates no object
\* whenever content is empty or whitespace-only, change_type is not
\* 'substantive' or 'editorial', or author is empty or whitespace-only; it
\* succeeds exactly when all three are valid, the object carrying the three
\* arguments as passed, so every constructed Amendment has valid fields.
C12_ConstructorValidates ==
    /\ [](\A r \in 1..Len(heap) : ~InvalidArgs(heap[r]))
    /\ [][result'.op = "Amendment"
          => IF InvalidArgs(result'.args)
             THEN /\ result'.raised = "ValueError"
                  /\ "ret" \notin DOMAIN result'
                  /\ heap' = heap
             ELSE /\ result'.raised = ""
                  /\ Len(heap') = Len(heap) + 1
                  /\ SubSeq(heap', 1, Len(heap)) = heap
                  /\ result'.ret = Len(heap')
                  /\ heap'[Len(heap')].content = result'.args.content
                  /\ heap'[Len(heap')].change_type = result'.args.change_type
                  /\ heap'[Len(heap')].author = result'.args.author]_vars

C12_Witness ==
    /\ heap # <<>>
    /\ result.op = "Amendment" /\ result.raised = "ValueError"
    /\ ~IsBlank(result.args.content)
    /\ result.args.change_type = "editorial"
    /\ result.args.author = Blank

\* C13: add_amendment and the ChainNode constructor raise TypeError for an
\* argument that is not an Amendment, return nothing (no node, no hash), and
\* the rejected call leaves the ledger and every record as they were.
C13_RejectsNonAmendment ==
    [][(result'.op \in {"add_amendment", "ChainNode"} /\ result'.arg \notin 1..Len(heap))
       => /\ result'.raised = "TypeError"
          /\ "ret" \notin DOMAIN result'
          /\ result'.logged = <<>>
          /\ chain' = chain
          /\ heap' = heap]_vars

C13_Witness ==
    /\ Len(chain) >= 1
    /\ result.op = "add_amendment" /\ result.arg = 0
    /\ result.raised = "TypeError"

\* C14 (as claimed): verify_integrity returns false whenever the ledger holds
\* more entries than the configured maximum, valid though every entry and link
\* is, and verifies an untampered ledger of exactly the maximum by the normal
\* walk (all entries examined, true returned).
C14_FailsClosedOnSize ==
    VerifyCalled =>
        /\ Len(chain) > MAX_CHAIN_SIZE => ReturnedFalse
        /\ Len(chain) = MAX_CHAIN_SIZE
              => (ReturnedTrue /\ result.examined = MAX_CHAIN_SIZE)

\* What C14 says does hold where Config is the class of line 17.
WhereConfigFirst_C14 ==
    (VerifyCalled /\ "MAX_CHAIN_SIZE" \in DOMAIN Config) =>
        /\ Len(chain) > MAX_CHAIN_SIZE
              => /\ ReturnedFalse /\ result.examined = 0
                 /\ result.logged = <<[event |-> "chain_too_large", size |-> Len(chain)]>>
        /\ Len(chain) = MAX_CHAIN_SIZE
              => (ReturnedTrue /\ result.examined = MAX_CHAIN_SIZE)

\* The checks of the walk at entry i (1-based), on the current ledger.
StoredHashDiffers(i) ==
    chain[i].hash # CalculateHash(heap[chain[i].amendment], chain[i].parent_hash)
ParentDiffers(i) == i > 1 /\ chain[i].parent_hash # chain[i - 1].hash
CheckFails(i) == StoredHashDiffers(i) \/ ParentDiffers(i)
RecordsAreText == \A i \in 1..Len(chain) : ~CalculateHashRaises(heap[chain[i].amendment])

\* C15 (as claimed): on a tampered ledger (within the size limit, its records
\* holding text) on which some check fails, verify_integrity returns false,
\* reports the smallest index i at which a check fails with the class of that
\* failure (hash_mismatch when entry i's recomputed hash differs from the
\* stored one, else parent_link_broken), and examines no entry after i.
C15_ShortCircuitFirstFailure ==
    \A i \in 1..Len(chain) :
        (/\ VerifyCalled /\ Len(chain) <= MAX_CHAIN_SIZE /\ RecordsAreText
         /\ CheckFails(i) /\ \A j \in 1..(i - 1) : ~CheckFails(j))
        => /\ ReturnedFalse
           /\ ReportedAs(i - 1, IF StoredHashDiffers(i) THEN "hash_mismatch"
                                 ELSE "parent_link_broken")
           /\ result.examined = i

\* What C15 says does hold where Config is the class of line 17.
WhereWalkReached_C15 ==
    \A i \in 1..Len(chain) :
        (/\ VerifyCalled /\ WalkReached /\ RecordsAreText
         /\ CheckFails(i) /\ \A j \in 1..(i - 1) : ~CheckFails(j))
        => /\ ReturnedFalse
           /\ ReportedAs(i - 1, IF StoredHashDiffers(i) THEN "hash_mismatch"
                                 ELSE "parent_link_broken")
           /\ result.examined = i

\* C16: a verify_integrity call, whatever its outcome, leaves the sequence of
\* entries and every entry's record, parent_hash and stored hash as they
\* were: a violation it detects is not repaired.
C16_VerifyChangesNothing ==
    [][result'.op = "verify_integrity"
       => /\ chain' = chain
          /\ heap' = heap
          /\ Entries(heap', chain') = Entries(heap, chain)]_vars

C16_Witness ==
    /\ VerifyCalled /\ ReturnedFalse
    /\ Len(chain) >= 2
    /\ \E i \in 1..Len(chain) : StoredHashDiffers(i)
    /\ result.logged[1].event = "tampering_detected"
    /\ result.logged[1].reason = "hash_mismatch"

\* C17 (as claimed): every verify_integrity call ends with a boolean verdict
\* and raises nothing, whatever the state of the ledger.
C17_VerifyNeverRaises ==
    VerifyCalled => (result.raised = "" /\ result.ret \in BOOLEAN)

\* Where Config is the class of line 17 and every record holds text, the call
\* does end with a verdict.
WhereTextAndConfigFirst_C17 ==
    (VerifyCalled /\ "MAX_CHAIN_SIZE" \in DOMAIN Config /\ RecordsAreText)
    => (result.raised = "" /\ result.ret \in BOOLEAN)

\* With Config the class of line 17, a record holding a value json.dumps
\* cannot encode makes the call raise RuntimeError once the walk gets to it.
RaisesOnUnserializable_C17 ==
    (VerifyCalled /\ WalkReached /\ result.raised # "")
    => (result.raised = "RuntimeError" /\ ~RecordsAreText)

\* C18: get_history returns one row per entry, in insertion order, row i
\* (counting from 1) carrying version = i and the hash and parent_hash stored
\* in entry i, and the call leaves the ledger as it was.
C18_HistoryRows ==
    [][result'.op = "get_history"
       => /\ chain' = chain
          /\ heap' = heap
          /\ Len(result'.ret) = Len(chain)
          /\ \A i \in 1..Len(chain) :
                /\ result'.ret[i].version = i
                /\ result'.ret[i].hash = chain[i].hash
                /\ result'.ret[i].parent_hash = chain[i].parent_hash
                /\ result'.ret[i].hash = appended[i].hash]_vars

C18_Witness ==
    /\ result.op = "get_history"
    /\ Len(result.ret) >= 2
    /\ result.ret[2].version = 2
    /\ result.ret[2].parent_hash = result.ret[1].hash

FlatFields ==
    {"version", "hash", "parent_hash", "content", "change_type", "author",
     "summary", "timestamp"}

\* C19 (as claimed): every row returned by get_history is flat, its top-level
\* fields being version, hash, parent_hash, content, category (change_type in
\* the source), author, summary and created_at (timestamp in the source).
C19_HistoryRowsFlat ==
    result.op = "get_history"
    => \A i \in 1..Len(result.ret) : DOMAIN result.ret[i] = FlatFields

\* C19 (amended): every row returned by get_history has the top-level fields
\* version, hash, parent_hash and amendment, the last one holding the record's
\* content, change_type, author, summary and timestamp; the flat structure of
\* eight fields is what list_amendments builds from a row.
C19_HistoryRowsNested ==
    result.op = "get_history"
    => \A i \in 1..Len(result.ret) :
          /\ DOMAIN result.ret[i] = {"version", "hash", "parent_hash", "amendment"}
          /\ DOMAIN result.ret[i].amendment =
                {"content", "change_type", "author", "summary", "timestamp"}
          /\ result.ret[i].amendment = ToDict(heap[chain[i].amendment])
          /\ DOMAIN AmendmentResponse(result.ret[i]) = FlatFields
          /\ AmendmentResponse(result.ret[i]).content = heap[chain[i].amendment].content

C19_Witness ==
    /\ result.op = "get_history"
    /\ Len(result.ret) >= 1
    /\ "amendment" \in DOMAIN result.ret[1]
    /\ result.ret[1].amendment.author = Alice

\* C20: the stored hash of an entry is the digest of (record fields,
\* parent_hash) and of nothing else: verify() is true on the entry an append
\* has just constructed, true on every entry that is as it was appended, and
\* across any step stays true on an entry whose record, parent_hash and
\* stored hash the step leaves alone.
C20_HashDeterministic ==
    /\ [](NoSplice =>
            \A i \in 1..Len(chain) :
                Entry(heap, chain[i]) = appended[i] => NodeVerify(heap, chain[i]))
    /\ [][/\ (result'.op = "add_amendment" /\ result'.raised = "")
               => NodeVerify(heap', chain'[Len(chain')])
           /\ \A i \in 1..Len(chain), k \in 1..Len(chain') :
                 (Entry(heap', chain'[k]) = Entry(heap, chain[i])
                    /\ NodeVerify(heap, chain[i]))
                 => NodeVerify(heap', chain'[k])]_vars

C20_Witness ==
    /\ NoSplice /\ tamperLog # {}
    /\ \E i, j \in 1..Len(chain) :
          /\ Entry(heap, chain[i]) # appended[i] /\ ~NodeVerify(heap, chain[i])
          /\ Entry(heap, chain[j]) = appended[j] /\ NodeVerify(heap, chain[j])

\* C23 (as claimed): the summary of a constructed Amendment is the summary the
\* caller supplied whenever one was supplied, whatever its value; when none
\* was supplied (None) it is the summarizer's output on content, or the
\* placeholder 'No summary' when no summarizer was given.
C23_SuppliedSummaryKept ==
    (result.op = "Amendment" /\ result.raised = "")
    => heap[result.ret].summary =
          IF result.args.summary # None THEN result.args.summary
          ELSE IF result.args.llm THEN Simplify(result.args.content)
          ELSE NoSummary

\* What the constructor does: an empty summary is treated as an omitted one.
NonEmptySummaryKept_C23 ==
    (result.op = "Amendment" /\ result.raised = "")
    => heap[result.ret].summary =
          IF result.args.summary \notin {None, <<>>} THEN result.args.summary
          ELSE IF result.args.llm THEN Simplify(result.args.content)
          ELSE NoSummary

\* C22: creating a HashChain raises ValueError and creates no ledger when
\* act_id or act_title is empty or whitespace-only (or not a str); otherwise
\* the new ledger carries the two arguments and has zero entries.
C22_CreateValidates ==
    [][result'.op = "HashChain"
       => IF IsBlank(result'.args.act_id) \/ IsBlank(result'.args.act_title)
          THEN /\ result'.raised = "ValueError"
               /\ "ret" \notin DOMAIN result'
               /\ chain' = chain /\ heap' = heap
          ELSE /\ result'.raised = ""
               /\ result'.ret.act_id = result'.args.act_id
               /\ result'.ret.act_title = result'.args.act_title
               /\ Len(result'.ret.chain) = 0
               /\ Len(chain') = 0]_vars

C22_Witness ==
    /\ Len(chain) >= 1
    /\ result.op = "HashChain" /\ result.raised = "ValueError"
    /\ ~IsBlank(result.args.act_id)
    /\ IsBlank(result.args.act_title)

\* C21: entries built from records with distinct (content, author) pairs have
\* distinct hashes, both two standalone nodes with the same parent and any
\* two entries of one ledger (SHA-256 taken to be collision free).
C21_DistinctRecordsDistinctHashes ==
    /\ result.op = "ChainNodePair"
          => (<<result.first.content, result.first.author>>
                 # <<result.second.content, result.second.author>>
              => result.first.hash # result.second.hash)
    /\ \A i, j \in 1..Len(chain) :
          <<heap[chain[i].amendment].content, heap[chain[i].amendment].author>>
             # <<heap[chain[j].amendment].content, heap[chain[j].amendment].author>>
          => chain[i].hash # chain[j].hash

C21_Witness ==
    /\ result.op = "ChainNodePair"
    /\ result.first.content = result.second.content
    /\ result.first.author # result.second.author
    /\ result.first.hash # result.second.hash
    /\ Len(chain) >= 2
    /\ heap[chain[1].amendment].content = heap[chain[2].amendment].content
    /\ heap[chain[1].amendment].author # heap[chain[2].amendment].author

\* C24: simplify returns the sentinel 'No content' for an empty or
\* whitespace-only string; for every other string it returns non-empty text
\* and raises nothing, whether an API key is configured or not.
C24_SentinelOrNonEmpty ==
    (result.op = "simplify" /\ result.text # None) =>
        /\ result.raised = ""
        /\ Strip(result.text) = <<>> => result.ret = NoContent
        /\ Strip(result.text) # <<>> => result.ret # <<>>

\* simplify has answered a whitespace-only string with the sentinel, with an
\* API key configured.
C24_Witness ==
    /\ result.op = "simplify"
    /\ result.use_real_llm
    /\ result.text = <<" ", "\n">>
    /\ result.ret = NoContent

\* The prefix of head that ends before its last whitespace character (all of
\* head when it holds none).
CutAtLastWhitespace(head) ==
    LET ws == {i \in 1..Len(head) : head[i] \in Whitespace}
    IN  IF ws = {} THEN head
        ELSE SubSeq(head, 1, (CHOOSE i \in ws : \A j \in ws : j <= i) - 1)

\* C25: substituted text longer than 200 characters is returned as its prefix
\* up to the last whitespace boundary at or before position 200 plus an
\* ellipsis, at most 203 characters; text of 200 characters or fewer is
\* returned untruncated.
C25_TruncatesAtLastWhitespace ==
    (result.op = "simplify" /\ result.simple # None) =>
        IF Len(result.simple) > SUMMARY_LIMIT
        THEN /\ result.ret = CutAtLastWhitespace(SubSeq(result.simple, 1, SUMMARY_LIMIT))
                                \o <<".", ".", ".">>
             /\ Len(result.ret) <= SUMMARY_LIMIT + 3
        ELSE result.ret = result.simple

\* What holds of the truncation: the result is never longer than 203
\* characters, text of 200 characters or fewer is returned untruncated, and
\* longer text is cut before the last space (U+0020) of its first 200
\* characters.
LengthBounded_C25 ==
    (result.op = "simplify" /\ result.simple # None) =>
        /\ Len(result.ret) <= SUMMARY_LIMIT + 3
        /\ Len(result.simple) <= SUMMARY_LIMIT => result.ret = result.simple
        /\ Len(result.simple) > SUMMARY_LIMIT =>
              result.ret = RSplitHead(SubSeq(result.simple, 1, SUMMARY_LIMIT))
                             \o <<".", ".", ".">>

\* key occurs somewhere in text.
Contains(text, key) == \E i \in 1..(Len(text) - Len(key) + 1) : OccursAt(text, key, i)

\* C26: every key of the replacement table that contains another key comes
\* before that shorter key, so each key occurring in a text handed to simplify
\* is applied before any key it contains.
C26_LongerKeysFirst ==
    (result.op = "simplify" /\ result.text # None) =>
        \A j \in 1..Len(REPLACEMENTS) :
            Contains(result.text, REPLACEMENTS[j][1]) =>
                \A i \in 1..Len(REPLACEMENTS) :
                    (i # j /\ Contains(REPLACEMENTS[j][1], REPLACEMENTS[i][1])) => j < i

\* What the order does: 'przepisy' is answered with the replacement of
\* 'przepis' followed by the leftover 'y'.
ShorterKeyWins_C26 ==
    (result.op = "simplify" /\ result.text = Przepisy) =>
        result.ret = REPLACEMENTS[21][2] \o <<"y">>

\* C27: an add_amendment on a ledger that already holds the configured
\* maximum number of entries is rejected and leaves the ledger unchanged, so
\* the ledger never holds more than the maximum.
C27_AppendRejectedAtCapacity ==
    /\ [](Len(chain) <= MAX_CHAIN_SIZE)
    /\ [][(Len(chain) >= MAX_CHAIN_SIZE /\ result'.op = "add_amendment") =>
            (result'.raised # "" /\ chain' = chain)]_vars

\* C28: no record is shared by two entries of the ledger, also when the same
\* Amendment object is passed to add_amendment twice.
C28_EntryOwnsRecord ==
    \A i, j \in 1..Len(chain) : i # j => chain[i].amendment # chain[j].amendment

\* The entries the ledger held when the read started, and those it holds now.
ReadIsPreOrPost ==
    \/ reader.seen = SubSeq(chain, 1, reader.start)
    \/ reader.seen = chain

\* Every entry read has its record, parent_hash and hash set.
ReadEntriesWhole ==
    \A i \in 1..Len(reader.seen) :
        /\ IsAmendment(heap, reader.seen[i].amendment)
        /\ reader.seen[i].hash # None
        /\ reader.seen[i].parent_hash = IF i = 1 THEN None ELSE reader.seen[i - 1].hash

\* C29: a get_history or verify_integrity pass during which at most one
\* add_amendment stored its entry raises nothing, has read exactly the ledger
\* before the append or the ledger after it, has read only entries whose
\* record, parent_hash and hash are set, and, for verify_integrity, answers
\* true.
C29_ReadSeesPreOrPost ==
    (reader.pc = "done" /\ Len(chain) <= reader.start + 1) =>
        /\ reader.raised = ""
        /\ ReadIsPreOrPost
        /\ ReadEntriesWhole
        /\ reader.op = "verify_integrity" => reader.ret = TRUE
        /\ reader.op = "get_history" => reader.ret = GetHistoryRows(heap, reader.seen)

\* The same for get_history, and for verify_integrity with Config the class
\* of line 17; the entries read are whole in every state of a pass.
WhereConfigFirst_C29 ==
    /\ reader.pc # "idle" => ReadEntriesWhole
    /\ (/\ reader.pc = "done"
        /\ reader.op = "get_history" \/ Config = ConfigFirst
        /\ Len(chain) <= reader.start + 1) =>
          /\ reader.raised = ""
          /\ ReadIsPreOrPost
          /\ reader.op = "verify_integrity" => reader.ret = TRUE
          /\ reader.op = "get_history" => reader.ret = GetHistoryRows(heap, reader.seen)

\* A pass that started before an append and read the appended entry too.
SawAppendedEntry_C29 ==
    /\ Config = ConfigFirst
    /\ reader.pc = "done"
    /\ reader.op = "verify_integrity"
    /\ reader.start + 1 = Len(chain)
    /\ reader.seen = chain

\* The calls of one client, in order.
CallsOf(c) == SelectSeq(calls, LAMBDA call : call.client = c)

\* The granted calls of client c made at an instant in [t0, t0 + window_sec).
GrantsIn(c, t0) ==
    {k \in 1..Len(calls) : /\ calls[k].client = c
                           /\ calls[k].ret
                           /\ t0 <= calls[k].at
                           /\ calls[k].at < t0 + window_sec}

\* C30: a client is granted at most max_requests requests inside any time
\* window of window_sec; from a fresh limiter the first max_requests calls of
\* a client within the window are granted and every further call of that
\* client within the window is refused.
C30_AtMostMaxPerWindow ==
    \A c \in Clients :
        /\ \A t0 \in 0..clock : Cardinality(GrantsIn(c, t0)) <= max_requests
        /\ \A k \in 1..Len(CallsOf(c)) :
              CallsOf(c)[k].at - CallsOf(c)[1].at < window_sec =>
                  CallsOf(c)[k].ret = (k <= max_requests)

\* A client has used its quota, was refused inside the window, and was
\* granted a request again after the window.
C30_Witness ==
    \E c \in Clients :
        /\ Len(CallsOf(c)) >= max_requests + 2
        /\ ~CallsOf(c)[max_requests + 1].ret
        /\ CallsOf(c)[max_requests + 1].at - CallsOf(c)[1].at < window_sec
        /\ CallsOf(c)[Len(CallsOf(c))].ret

\* The granted calls of client c that are younger than window_sec now.
LiveGrants(c) ==
    {k \in 1..Len(calls) : /\ calls[k].client = c
                           /\ calls[k].ret
                           /\ clock - calls[k].at < window_sec}

\* C31: get_remaining(client) returns max_requests minus the number of the
\* client's granted requests still inside the window (0 when the quota is
\* used up, max_requests for a client that made no request).
C31_RemainingQuota ==
    result.op = "get_remaining" =>
        /\ result.raised = ""
        /\ result.ret = max_requests - Cardinality(LiveGrants(result.arg))

\* C32: whether a call is granted depends on the client's granted calls
\* alone: it is granted exactly when fewer than max_requests of its earlier
\* granted calls are younger than window_sec, however many refused calls lie
\* in between.
C32_DeniedNotRecorded ==
    \A c \in Clients :
        \A k \in 1..Len(CallsOf(c)) :
            LET mine == CallsOf(c)
                live == {j \in 1..(k - 1) :
                            mine[j].ret /\ mine[k].at - mine[j].at < window_sec}
            IN  mine[k].ret = (Cardinality(live) < max_requests)

\* A client used its quota, was refused twice, and was granted a request at
\* the instant its oldest grant was exactly window_sec old.
C32_Witness ==
    \E c \in Clients :
        LET mine == CallsOf(c)
        IN  /\ Len(mine) = max_requests + 3
            /\ \A k \in 1..max_requests : mine[k].ret
            /\ ~mine[max_requests + 1].ret
            /\ ~mine[max_requests + 2].ret
            /\ mine[max_requests + 3].ret
            /\ mine[max_requests + 3].at - mine[1].at = window_sec

\* The instants of the first k calls of client c.
CallTimes(c, k) == [j \in 1..k |-> CallsOf(c)[j].at]

\* C33: is_allowed(c) changes the request record of c only, and the answers
\* a client gets are determined by the instants of its own calls: two
\* clients that called at the same instants got the same answers, whatever
\* the other clients did in between.
C33_ClientsIndependent ==
    /\ [](\A c, d \in Clients :
            \A k \in 1..Len(CallsOf(c)) :
                (k <= Len(CallsOf(d)) /\ CallTimes(c, k) = CallTimes(d, k)) =>
                    CallsOf(c)[k].ret = CallsOf(d)[k].ret)
    /\ [][\A c \in Clients :
            (calls' # calls /\ calls'[Len(calls')].client # c) =>
                /\ c \in DOMAIN limiter' <=> c \in DOMAIN limiter
                /\ c \in DOMAIN limiter => limiter'[c] = limiter[c]]_vars

\* One client has used its quota and been refused, and the other client was
\* granted a request after that.
C33_Witness ==
    /\ Len(calls) >= max_requests + 2
    /\ calls[max_requests + 1].client = "client1"
    /\ ~calls[max_requests + 1].ret
    /\ calls[Len(calls)].client = "client2"
    /\ calls[Len(calls)].ret

\* C34: the hashes of the entries stored by successive add_amendment calls
\* on one ledger are pairwise distinct, also when the same Amendment object,
\* or objects with identical fields, are appended more than once.
C34_HashesPairwiseDistinct ==
    \A i, j \in 1..Len(chain) :
        i # j => /\ chain[i].hash # chain[j].hash
                 /\ appended[i].hash # appended[j].hash

\* The same object was appended twice in a row, after an object with the
\* same fields.
C34_Witness ==
    /\ Len(chain) >= 3
    /\ result.op = "add_amendment"
    /\ result.raised = ""
    /\ chain[2].amendment = chain[3].amendment
    /\ chain[1].amendment # chain[2].amendment
    /\ heap[chain[1].amendment] = heap[chain[2].amendment]

\* C35: whenever verify_integrity returns true on a non-empty ledger, the
\* first entry's parent_hash is the genesis sentinel (None); a ledger whose
\* leading entries were removed is not accepted.
C35_FirstEntryIsGenesis ==
    (VerifyCalled /\ ReturnedTrue /\ chain # <<>>) => chain[1].parent_hash = None

\* What the walk does check on such a ledger: each remaining entry's hash
\* and each link between remaining neighbours.
RemainderConsistent_C35 ==
    (VerifyCalled /\ ReturnedTrue) =>
        \A i \in 1..Len(chain) :
            /\ NodeVerify(heap, chain[i])
            /\ i > 1 => chain[i].parent_hash = chain[i - 1].hash

\* The one audit event of a verify_integrity call matches what it returned.
EventMatchesOutcome ==
    /\ Len(result.logged) = 1
    /\ result.ret = TRUE => result.logged[1].event = "chain_verified"
    /\ result.ret = FALSE =>
          \/ /\ result.logged[1].event = "chain_too_large"
             /\ result.examined = 0
          \/ /\ result.logged[1].event = "tampering_detected"
             /\ result.logged[1].node = result.examined - 1
             /\ result.logged[1].reason \in {"hash_mismatch", "parent_link_broken"}

\* add_amendment logged amendment_added once, for the entry it stored, or
\* nothing when it raised.
AddEventMatchesOutcome ==
    IF result.raised = ""
    THEN /\ Len(result.logged) = 1
         /\ result.logged[1].event = "amendment_added"
         /\ result.logged[1].hash = result.ret
         /\ \E i \in 1..Len(chain) : chain[i].hash = result.ret
    ELSE result.logged = <<>>

\* C36: every verify_integrity call emits exactly one audit event matching
\* its outcome, every successful add_amendment emits one amendment_added
\* event after the entry is stored, and a rejected add_amendment emits none.
C36_OneAuditEventPerCall ==
    /\ result.op = "verify_integrity" => (result.raised = "" /\ EventMatchesOutcome)
    /\ result.op = "add_amendment" => AddEventMatchesOutcome

\* The same for the verify_integrity calls that return.
WhereVerifyReturns_C36 ==
    /\ (result.op = "verify_integrity" /\ result.raised = "") => EventMatchesOutcome
    /\ result.op = "add_amendment" => AddEventMatchesOutcome

\* C37: an audit event is written to the audit log exactly once, however
\* many HashChain instances were created before it is logged.
C37_EventWrittenOnce ==
    result.logged # <<>> => AuditWritten(handlers, result.logged) = result.logged

\* An event logged while the process has created one HashChain is written
\* once; after n instances it is written n times.
WrittenOncePerInstance_C37 ==
    result.logged # <<>> =>
        /\ Len(AuditWritten(handlers, result.logged)) = handlers * Len(result.logged)
        /\ handlers = 1 => AuditWritten(handlers, result.logged) = result.logged

\* C38: a write to a row returned by get_history (a top-level field or a
\* field of the nested amendment) changes neither the ledger's entries nor
\* what verify_integrity and get_history return afterwards.
C38_RowsAreCopies ==
    [][result'.op = "row_write" =>
          /\ Entries(heap', chain') = Entries(heap, chain)
          /\ VerifyIntegrity(Config', heap', chain') = VerifyIntegrity(Config, heap, chain)
          /\ GetHistoryRows(heap', chain') = GetHistoryRows(heap, chain)]_vars

\* A caller has overwritten the nested content of the first row of a ledger
\* of two entries; the ledger still holds the content it stored.
C38_Witness ==
    /\ result.op = "row_write"
    /\ Len(chain) >= 2
    /\ result.ret[1].amendment.content = Tampered
    /\ heap[chain[1].amendment].content # Tampered
    /\ Entries(heap, chain) = appended


RaisingIngestKeepsChain_C39 ==
    [][(result'.op = "POST /ingest" /\ result'.status # 200 /\ result'.cause # "")
          => /\ result'.status = 400
             /\ current_chain' = current_chain
             /\ chain' = chain
             /\ heap' = heap]_vars

\* A ledger is loaded and an ingestion that raised has just been answered.
WhereLoadedAndRaised_C39 ==
    /\ current_chain = Loaded
    /\ chain # <<>>
    /\ result.op = "POST /ingest"
    /\ result.status = 400
    /\ result.cause # ""

\* A ledger was loaded, and the last POST /ingest, of a file with no
\* amendments, left none loaded.
WhereUnloaded_C39 ==
    /\ current_chain = None
    /\ chain # <<>>
    /\ result.op = "POST /ingest"
    /\ result.status = 400
    /\ result.cause = ""

====
